---- MODULE Spec2Model ----
(***************************************************************************)
(* State-machine model of the speculative RL-weighted TAGE conditional     *)
(* branch predictor, class SampleCondPredictor of src/unnamed/part_003,    *)
(* together with the harness that calls setup / predict / history_update / *)
(* update / terminate on it.                                               *)
(*                                                                         *)
(* Sizes are scaled down so that the state space is finite and small; the  *)
(* order relations between the sizes of the source are kept:               *)
(*   - history lengths grow with the table number and the longest one      *)
(*     equals MAX_HISTORY (source: 4 .. 640, MAX_HISTORY 640),             *)
(*   - history lengths exceed the hash widths, so the hash folds,          *)
(*   - the 8-bit cyclic counter pred_cycle wraps before the GHR is full    *)
(*     (source: 256 < 640 + 32).                                           *)
(* Counter widths (TAGE_PRED_BITS, TAGE_USEFUL_BITS, BASE_PRED_BITS,       *)
(* USE_ALT_THRESHOLD, RL_WEIGHTS_BITS, LEARNING_RATE) are the source's.    *)
(***************************************************************************)
EXTENDS Integers, Sequences, FiniteSets, TLC

---------------------------------------------------------------------------
(* Configuration defines, part_003 lines 20-31 and 88.                     *)

NUM_TAGGED_TABLES == 3  \* source: 12
BASE_INDEX_BITS == 1  \* source: 14
BASE_PRED_BITS == 2
MAX_HISTORY == 3  \* source: 640
MAX_HISTORY_BUFFER == 1  \* source: 32
TAGE_PRED_BITS == 3
TAGE_USEFUL_BITS == 2
USE_ALT_THRESHOLD == 8
USE_ALT_MAX == 15
RL_WEIGHTS_BITS == 4
LEARNING_RATE == 1
MAX_BYTES == 16  \* source: 192 * 1024
RESET_PERIOD == 5  \* source: 512 * 1024
PRED_CYCLE_BITS == 1  \* source: uint8_t, 8 bits
ID_BITS == 8  \* source: uint64_t, 64 bits
PIECE_BITS == 4

Pow2(n) == 2 ^ n

WEIGHT_MAX == Pow2(RL_WEIGHTS_BITS - 1) - 1
WEIGHT_MIN == 0 - Pow2(RL_WEIGHTS_BITS - 1)

Min(a, b) == IF a < b THEN a ELSE b
Max(a, b) == IF a > b THEN a ELSE b
(* A magnitude centred between -1 and 0, under which only counters 0 and  *)
(* -1 are within one of the middle. C23 tells it from the code.            *)
Abs_Centred(a) == IF a < 0 THEN 0 - a ELSE a + 1

Abs(a) == IF a < 0 THEN 0 - a ELSE a

(* TAGGED_CONFIGS: {hist_len, index_bits, tag_bits} per table.             *)
TAGGED_CONFIGS ==
    [i \in 0 .. NUM_TAGGED_TABLES - 1 |->
        CASE i = 0 -> [hist_len |-> 1, index_bits |-> 1, tag_bits |-> 1]
          [] i = 1 -> [hist_len |-> 2, index_bits |-> 1, tag_bits |-> 2]
          [] OTHER -> [hist_len |-> MAX_HISTORY, index_bits |-> 1, tag_bits |-> 2]]

entries(cfg) == Pow2(cfg.index_bits)

Tables == 0 .. NUM_TAGGED_TABLES - 1
BaseSize == Pow2(BASE_INDEX_BITS)
CycleMod == Pow2(PRED_CYCLE_BITS)
GhrCapacity == MAX_HISTORY + MAX_HISTORY_BUFFER

---------------------------------------------------------------------------
(* Bounds of the harness.                                                  *)

MaxSeq == 2
MaxCalls == 6
MaxStrayCalls == 3
MaxStray == 1
MaxBufferCfg == 40
MaxBaseBitsCfg == 3
MaxRestartCalls == 5
MaxSeqNo == 17

(* The branch addresses the harness passes: one per base-table entry; 0    *)
(* hashes to tag 0 in every table, 1 does not.                             *)
PCs == {0, 1}

---------------------------------------------------------------------------
VARIABLES
    pred_cycle,          \* uint8_t cyclic counter of history_update calls
    base_table,          \* base predictor counters
    weights,             \* RL weights, per table, last one is the bias
    tagged_tables,       \* per table, per slot: tag, ctr, u
    ghr,                 \* std::deque<bool>; ghr[1] is front(), ghr[Len] is back()
    use_alt_on_na,       \* meta-counter
    reset_counter,       \* aging period counter
    speculative_states,  \* std::map<uint64_t, SpeculativeState>
    fault,               \* an access outside the GHR happened (undefined behaviour)
    aborted,             \* an assert failed
    cfg,                 \* the build's configuration checked by setup()
    last,                \* the call just made, with its arguments and result
    h_open,              \* harness: identities predicted and not yet resolved
    h_owner,             \* harness: the identity that pushed each GHR bit
    h_done,              \* harness: the identities resolved, with their outcome
    h_nextSeq,           \* harness: next sequence number to hand out
    h_calls,             \* harness: number of calls made
    h_stray              \* harness: number of calls that broke the call contract

vars == << pred_cycle, base_table, weights, tagged_tables, ghr, use_alt_on_na,
           reset_counter, speculative_states, fault, aborted, cfg, last,
           h_open, h_owner, h_done, h_nextSeq, h_calls, h_stray >>

predictor == << pred_cycle, base_table, weights, tagged_tables, ghr,
                use_alt_on_na, reset_counter, speculative_states >>

---------------------------------------------------------------------------
(* Helper functions of the class.                                          *)

(* hash ^= (bit << pos) on a non-negative integer.                         *)
(* A fold that sets bits instead of toggling them. C32 tells it from the   *)
(* code.                                                                   *)
XorBit_Or(hash, bit, pos) ==
    IF ~bit THEN hash
    ELSE IF (hash \div Pow2(pos)) % 2 = 1 THEN hash
    ELSE hash + Pow2(pos)

XorBit(hash, bit, pos) ==
    IF ~bit THEN hash
    ELSE IF (hash \div Pow2(pos)) % 2 = 1 THEN hash - Pow2(pos)
    ELSE hash + Pow2(pos)

RECURSIVE HashLoop(_, _, _, _, _, _)
HashLoop(hash, hist, hist_len, skip_hist, out_bits, bits_used) ==
    \* it = hist.rbegin() + skip_hist + bits_used
    IF bits_used < hist_len /\ Len(hist) - skip_hist - bits_used >= 1
    THEN HashLoop(XorBit(hash, hist[Len(hist) - skip_hist - bits_used],
                         bits_used % out_bits),
                  hist, hist_len, skip_hist, out_bits, bits_used + 1)
    ELSE hash

(* A hash that starts at the newest bit whatever the skip. C33 tells it    *)
(* from the code.                                                          *)
compute_hash_NoSkip(pc, hist, hist_len, skip_hist, out_bits) ==
    HashLoop(pc, hist, hist_len, 0, out_bits, 0) % Pow2(out_bits)

compute_hash(pc, hist, hist_len, skip_hist, out_bits) ==
    HashLoop(pc, hist, hist_len, skip_hist, out_bits, 0) % Pow2(out_bits)

(* Indices sorted by descending value. std::sort leaves the order of equal *)
(* elements unspecified; for the source's 12 elements every standard       *)
(* library sorts by insertion, which keeps equal elements in index order.  *)
(* Indices sorted by ascending value. C22 tells it from the code.          *)
get_sorted_indices_Ascending(arr) ==
    LET n == Len(arr)
        Before(a, b) == arr[a] < arr[b] \/ (arr[a] = arr[b] /\ a < b)
        Rank(a) == Cardinality({b \in 1 .. n : Before(b, a)})
    IN  [r \in 1 .. n |-> (CHOOSE a \in 1 .. n : Rank(a) = r - 1) - 1]

get_sorted_indices(arr) ==
    LET n == Len(arr)
        Before(a, b) == arr[a] > arr[b] \/ (arr[a] = arr[b] /\ a < b)
        Rank(a) == Cardinality({b \in 1 .. n : Before(b, a)})
    IN  [r \in 1 .. n |-> (CHOOSE a \in 1 .. n : Rank(a) = r - 1) - 1]

get_unique_inst_id(seq_no, piece) ==
    ((seq_no * Pow2(PIECE_BITS)) % Pow2(ID_BITS)) + (piece % Pow2(PIECE_BITS))

---------------------------------------------------------------------------
(* std::map operations on speculative_states (and the harness's records).  *)

EmptyMap == [x \in {} |-> 0]
(* A store that forgets every other key on assignment. C13 tells it from   *)
(* the code.                                                               *)
Put_Only(m, key, val) == [k \in {key} |-> val]

Put(m, key, val) == [x \in DOMAIN m \cup {key} |-> IF x = key THEN val ELSE m[x]]
Erase(m, key) == [x \in DOMAIN m \ {key} |-> m[x]]

(* A SpeculativeState default-initialised on the stack of predict: its     *)
(* pred_cycle is never assigned there, so it holds an indeterminate value, *)
(* written Indeterminate until something reads it.                         *)
Indeterminate == -1

(* A SpeculativeState value-initialised by std::map::operator[].           *)
DefaultState ==
    [provider_table |-> 0, altpred |-> FALSE, final_pred |-> FALSE,
     pred_cycle |-> 0, prediction |-> << >>]

(* speculative_states[id]: the stored state, or a fresh value-initialised  *)
(* one that operator[] inserts.                                            *)
StateOf(id) ==
    IF id \in DOMAIN speculative_states THEN speculative_states[id]
    ELSE DefaultState

---------------------------------------------------------------------------
(* predict, part_003 lines 170-230.                                        *)

IndexOf(i, PC, hist, skip) ==
    compute_hash(PC, hist, TAGGED_CONFIGS[i].hist_len, skip,
                 TAGGED_CONFIGS[i].index_bits) % entries(TAGGED_CONFIGS[i])

TagOf(i, PC, hist, skip) ==
    compute_hash(PC, hist, TAGGED_CONFIGS[i].hist_len, skip,
                 TAGGED_CONFIGS[i].tag_bits)

(* state.prediction[i]: the RL score of table i, lines 188-193.            *)
TableScore(i) ==
    LET n == Min(MAX_HISTORY, Len(ghr))
        RECURSIVE Sum(_)
        Sum(j) == IF j >= n THEN 0
                  ELSE (IF ghr[j + 1] THEN weights[i][j] ELSE 0 - weights[i][j])
                       + Sum(j + 1)
    IN  Sum(0) + weights[i][MAX_HISTORY]

(* Whether table i holds the tag of PC under the current history.          *)
TagMatch(i, PC) ==
    tagged_tables[i][IndexOf(i, PC, ghr, 0)].tag = TagOf(i, PC, ghr, 0)

(* The tables in the order the loop of lines 196-213 visits them.          *)
ScanOrder ==
    get_sorted_indices([i \in 1 .. NUM_TAGGED_TABLES |-> TableScore(i - 1)])

(* The SpeculativeState that predict builds for PC.                        *)
(* A base prediction that needs a strictly positive counter; the code      *)
(* compares with >= 0. C10 tells the two apart.                            *)
BasePred_Strict(ctr) == ctr > 0

(* bool base_pred = (base_table[base_idx] >= 0), line 178.                 *)
BasePred(ctr) == ctr >= 0

predict_state(PC) ==
    LET base_idx == PC % BaseSize
        base_pred == BasePred(base_table[base_idx])
        Hit(i) == TagMatch(i, PC)
        hits == SelectSeq(ScanOrder, Hit)
        provider == IF hits = << >> THEN -1 ELSE hits[1]
        CtrOf(i) == tagged_tables[i][IndexOf(i, PC, ghr, 0)].ctr
        altpred == IF Len(hits) >= 2 THEN CtrOf(hits[2]) >= 0 ELSE base_pred
        own == IF provider = -1 THEN base_pred ELSE CtrOf(provider) >= 0
        final == IF provider # -1 /\ Abs(CtrOf(provider)) <= 1
                    /\ use_alt_on_na >= USE_ALT_THRESHOLD
                 THEN altpred ELSE own
    IN  [provider_table |-> provider, altpred |-> altpred, final_pred |-> final,
         pred_cycle |-> Indeterminate,
         prediction |-> [i \in 1 .. NUM_TAGGED_TABLES |-> TableScore(i - 1)]]

(* The bits of the GHR that identity id pushed, and the last of them.      *)
OwnBits(id) == {i \in 1 .. Len(h_owner) : h_owner[i] = id}
LastOwn(id) == CHOOSE i \in OwnBits(id) : \A j \in OwnBits(id) : j <= i

(* The number of history_update calls made after the one that pushed id's  *)
(* last bit; GhrCapacity or more when that bit has left the register.      *)
PushedSince(id) ==
    IF OwnBits(id) = {} THEN GhrCapacity ELSE Len(h_owner) - LastOwn(id)

NoCall ==
    [op |-> "none", id |-> 0, seq_no |-> 0, piece |-> 0, pc |-> 0, taken |-> FALSE,
     resolveDir |-> FALSE, predDir |-> FALSE, ret |-> FALSE, known |-> FALSE,
     delta |-> 0, alloc |-> -1, provider |-> -1, slot |-> -1, held |-> FALSE,
     hu |-> 0,
     since |-> 0]

(* The call as the harness sees it: whether the identity has a checkpoint, *)
(* how many history_update calls it received, how many came after.         *)
Call(op, id, piece) ==
    [NoCall EXCEPT !.op = op, !.id = id, !.piece = piece,
        !.known = (id \in DOMAIN speculative_states),
        !.hu = IF id \in DOMAIN h_open THEN h_open[id].hu ELSE 0,
        !.since = IF id \in DOMAIN h_open /\ h_open[id].hu > 0
                  THEN PushedSince(id) ELSE 0]

(* A predict that stores no checkpoint. C4 tells it from the code.         *)
SaveState_Dropped(id, state) == speculative_states

(* speculative_states[id] = state, line 227.                               *)
SaveState(id, state) == Put(speculative_states, id, state)

(* The index of the provider entry that matched in predict, lines 199-204; *)
(* -1 when no table matched.                                               *)
(* The provider's own bit at predict: its counter's sign, or the base     *)
(* prediction when no table matched.                                       *)
OwnPred(PC) ==
    LET p == predict_state(PC).provider_table
    IN  IF p = -1 THEN BasePred(base_table[PC % BaseSize])
        ELSE tagged_tables[p][IndexOf(p, PC, ghr, 0)].ctr >= 0

PredictSlot(PC) ==
    LET p == predict_state(PC).provider_table
    IN  IF p = -1 THEN -1 ELSE IndexOf(p, PC, ghr, 0)

predict(seq_no, piece, PC) ==
    LET id == get_unique_inst_id(seq_no, piece)
        state == predict_state(PC)
    IN  /\ speculative_states' = SaveState(id, state)
        /\ UNCHANGED << pred_cycle, base_table, weights, tagged_tables, ghr,
                        use_alt_on_na, reset_counter, fault, aborted, cfg >>
        /\ last' = [Call("predict", id, piece) EXCEPT !.pc = PC,
                        !.ret = state.final_pred,
                        !.provider = state.provider_table]

---------------------------------------------------------------------------
(* history_update, part_003 lines 232-244.                                 *)

(* push_back, then pop_front when longer than the capacity.                *)
(* A push that never drops the oldest bit. C19 tells it from the code.     *)
Push_Unbounded(q, x) == Append(q, x)

Push(q, x) ==
    IF Len(q) + 1 > GhrCapacity THEN Tail(Append(q, x)) ELSE Append(q, x)

history_update(seq_no, piece, taken) ==
    LET id == get_unique_inst_id(seq_no, piece)
        cycle == (pred_cycle + 1) % CycleMod
    IN  /\ pred_cycle' = cycle
        /\ ghr' = Push(ghr, taken)
        /\ speculative_states' =
              Put(speculative_states, id, [StateOf(id) EXCEPT !.pred_cycle = cycle])
        /\ UNCHANGED << base_table, weights, tagged_tables, use_alt_on_na,
                        reset_counter, fault, aborted, cfg >>
        /\ last' = [Call("history_update", id, piece) EXCEPT !.taken = taken]

---------------------------------------------------------------------------
(* update, part_003 lines 246-340.                                         *)

(* A counter increment without the upper clamp. C8 tells it from the code. *)
CtrUp_Unsaturated(ctr, bits) == ctr + 1

CtrUp(ctr, bits) == Min(ctr + 1, Pow2(bits - 1) - 1)
CtrDown(ctr, bits) == Max(ctr - 1, 0 - Pow2(bits - 1))

(* A delta that ignores the pushes made since the checkpoint. C2 tells it  *)
(* from the code.                                                          *)
DeltaCycles_Zero(now, then) == 0

(* delta_cycles = pred_cycle - state.pred_cycle, in uint8_t, line 253.     *)
DeltaCycles(now, then) == (now - then) % CycleMod

(* ghr[ghr.size() - delta_cycles - 1] = resolveDir, lines 254-256.         *)
(* A rollback that writes the resolved direction on every update. C21      *)
(* tells it from the code.                                                 *)
Rollback_Always(hist, delta, resolveDir, predDir) ==
    IF Len(hist) - delta \in 1 .. Len(hist)
    THEN [hist EXCEPT ![Len(hist) - delta] = resolveDir]
    ELSE hist

Rollback(hist, delta, resolveDir, predDir) ==
    IF predDir # resolveDir
    THEN [hist EXCEPT ![Len(hist) - delta] = resolveDir]
    ELSE hist

(* The accesses of update that fall outside the GHR: the write of line 255 *)
(* at a wrapped index, and compute_hash starting beyond rend().            *)
OutOfRange(state, delta, resolveDir, predDir) ==
    \/ predDir # resolveDir /\ delta >= Len(ghr)
    \/ state.provider_table # -1 /\ delta > Len(ghr)

(* Provider counter and usefulness, lines 265-279.                         *)
ProviderEntry(entry, state, resolveDir, predDir) ==
    [tag |-> entry.tag,
     ctr |-> IF resolveDir THEN CtrUp(entry.ctr, TAGE_PRED_BITS)
             ELSE CtrDown(entry.ctr, TAGE_PRED_BITS),
     u   |-> IF state.altpred # predDir
             THEN IF resolveDir = predDir
                  THEN Min(entry.u + 1, Pow2(TAGE_USEFUL_BITS) - 1)
                  ELSE Max(entry.u - 1, 0)
             ELSE entry.u]

(* if (!resolveDir == predDir), line 282.                                  *)
AllocTrigger(resolveDir, predDir) == (~resolveDir) = predDir

(* The value of k after the loop of lines 285-295 over tables tt.          *)
AllocTable(tt, p, PC, hist, delta) ==
    LET free == {k \in p + 1 .. NUM_TAGGED_TABLES - 1 :
                    tt[k][IndexOf(k, PC, hist, delta)].u = 0}
    IN  IF free = {} THEN NUM_TAGGED_TABLES
        ELSE CHOOSE k \in free : \A j \in free : k <= j

(* An allocation that claims the entry of every table from k upward whose  *)
(* usefulness is zero, not only the first. C37 tells it from the code.     *)
Allocate_AllAbove(tt, k, PC, hist, delta, resolveDir) ==
    [i \in Tables |->
        [x \in DOMAIN tt[i] |->
            IF i >= k /\ x = IndexOf(i, PC, hist, delta) /\ tt[i][x].u = 0
            THEN [tag |-> TagOf(i, PC, hist, delta),
                  ctr |-> IF resolveDir THEN 0 ELSE -1,
                  u   |-> 0]
            ELSE tt[i][x]]]

Allocate(tt, k, PC, hist, delta, resolveDir) ==
    IF k >= NUM_TAGGED_TABLES THEN tt
    ELSE [tt EXCEPT ![k][IndexOf(k, PC, hist, delta)] =
             [tag |-> TagOf(k, PC, hist, delta),
              ctr |-> IF resolveDir THEN 0 ELSE -1,
              u   |-> 0]]

(* A weight step without saturation. C38 tells it from the code.           *)
Clamp_Unbounded(w) == w

Clamp(w) == Max(Min(w, WEIGHT_MAX), WEIGHT_MIN)

(* RL weight training, lines 297-308.                                      *)
TrainWeights(w, k, hist, delta) ==
    IF Len(hist) >= delta + MAX_HISTORY + 1
    THEN [i \in Tables |->
            [j \in 0 .. MAX_HISTORY |->
                LET target == IF i = k THEN 1 ELSE 0
                IN  IF j < MAX_HISTORY
                    THEN Clamp(w[i][j]
                               + (IF hist[Len(hist) - delta - j] THEN 1 ELSE -1)
                                 * target * LEARNING_RATE)
                    ELSE Clamp(w[i][j] + LEARNING_RATE * target)]]
    ELSE w

(* Base table, lines 311-317.                                              *)
(* A base table indexed by the PC bits above the index bits, under which   *)
(* PCs congruent modulo the table size do not share a counter. C31 tells   *)
(* it from the code.                                                       *)
BaseUpdate_HighBits(bt, PC, resolveDir) ==
    LET base_idx == (PC \div BaseSize) % BaseSize
    IN  [bt EXCEPT ![base_idx] =
            IF resolveDir THEN CtrUp(bt[base_idx], BASE_PRED_BITS)
            ELSE CtrDown(bt[base_idx], BASE_PRED_BITS)]

BaseUpdate(bt, PC, resolveDir) ==
    LET base_idx == PC % BaseSize
    IN  [bt EXCEPT ![base_idx] =
            IF resolveDir THEN CtrUp(bt[base_idx], BASE_PRED_BITS)
            ELSE CtrDown(bt[base_idx], BASE_PRED_BITS)]

(* use_alt_on_na, lines 320-327.                                           *)
MetaUpdate(meta, state, resolveDir, predDir) ==
    IF state.provider_table # -1
    THEN IF state.altpred = resolveDir /\ predDir # resolveDir
         THEN Min(meta + 1, USE_ALT_MAX)
         ELSE IF state.altpred # resolveDir /\ predDir = resolveDir
              THEN Max(meta - 1, 0)
              ELSE meta
    ELSE meta

(* Periodic halving of the usefulness counters, lines 329-337.             *)
AgingDue == reset_counter + 1 >= RESET_PERIOD

Age(tt) ==
    [i \in Tables |->
        [x \in DOMAIN tt[i] |-> [tt[i][x] EXCEPT !.u = tt[i][x].u \div 2]]]

(* The tagged tables after lines 258-309, and the table allocated into.    *)
TablesAfter(state, PC, hist, delta, resolveDir, predDir) ==
    LET p == state.provider_table
        idx == IndexOf(p, PC, hist, delta)
        tt1 == [tagged_tables EXCEPT ![p][idx] =
                   ProviderEntry(tagged_tables[p][idx], state, resolveDir, predDir)]
        k == AllocTable(tt1, p, PC, hist, delta)
    IN  IF p = -1 THEN [tt |-> tagged_tables, k |-> -1, trained |-> FALSE]
        ELSE IF AllocTrigger(resolveDir, predDir)
             THEN [tt |-> Allocate(tt1, k, PC, hist, delta, resolveDir), k |-> k,
                   trained |-> TRUE]
             ELSE [tt |-> tt1, k |-> -1, trained |-> FALSE]

(* An update that keeps the checkpoint. C3 tells it from the code.         *)
DropState_Kept(id) == speculative_states

(* speculative_states.erase(id), line 339.                                 *)
DropState(id) == Erase(speculative_states, id)

(* Whether the counter that update steps, the provider entry's or the base *)
(* table's, already sits at the bound it is stepped toward.                *)
AtBound(state, PC, hist, delta, resolveDir) ==
    LET p == state.provider_table
        ctr == IF p = -1 THEN base_table[PC % BaseSize]
               ELSE tagged_tables[p][IndexOf(p, PC, hist, delta)].ctr
        bits == IF p = -1 THEN BASE_PRED_BITS ELSE TAGE_PRED_BITS
    IN  IF resolveDir THEN ctr = Pow2(bits - 1) - 1 ELSE ctr = 0 - Pow2(bits - 1)

(* The values the read of state.pred_cycle in line 253 can yield: the      *)
(* stored one, or any value of the type when predict left the field        *)
(* uninitialised (line 174) and no history_update wrote it.                *)
CycleReads(state) ==
    IF state.pred_cycle = Indeterminate THEN 0 .. CycleMod - 1
    ELSE {state.pred_cycle}

(* What lines 253-263 do for a read of then: whether an access is out of   *)
(* range, and the GHR left otherwise.                                      *)
GhrAfter(state, then, resolveDir, predDir) ==
    LET delta == DeltaCycles(pred_cycle, then)
    IN  IF OutOfRange(state, delta, resolveDir, predDir)
        THEN [fault |-> TRUE, ghr |-> ghr]
        ELSE [fault |-> FALSE, ghr |-> Rollback(ghr, delta, resolveDir, predDir)]

(* The index of the provider entry that update trains, line 262; -1 when   *)
(* the base table provided.                                                *)
UpdateSlot(state, PC, hist, delta) ==
    IF state.provider_table = -1 THEN -1
    ELSE IndexOf(state.provider_table, PC, hist, delta)

update(seq_no, piece, PC, resolveDir, predDir) ==
    LET id == get_unique_inst_id(seq_no, piece)
        state == StateOf(id)
    IN  \E then \in CycleReads(state) :
          LET delta == DeltaCycles(pred_cycle, then)
              call == [Call("update", id, piece) EXCEPT !.pc = PC,
                          !.resolveDir = resolveDir, !.predDir = predDir,
                          !.delta = delta, !.provider = state.provider_table]
          IN  /\ UNCHANGED << aborted, cfg >>
              /\ IF OutOfRange(state, delta, resolveDir, predDir)
                 THEN /\ fault' = TRUE
                      /\ last' = call
                      /\ UNCHANGED predictor
                 ELSE LET hist == Rollback(ghr, delta, resolveDir, predDir)
                          res == TablesAfter(state, PC, hist, delta, resolveDir, predDir)
                      IN  /\ ghr' = hist
                          /\ tagged_tables' = IF AgingDue THEN Age(res.tt) ELSE res.tt
                          /\ weights' = IF res.trained
                                        THEN TrainWeights(weights, res.k, hist, delta)
                                        ELSE weights
                          /\ base_table' = IF state.provider_table = -1
                                           THEN BaseUpdate(base_table, PC, resolveDir)
                                           ELSE base_table
                          /\ use_alt_on_na' =
                                MetaUpdate(use_alt_on_na, state, resolveDir, predDir)
                          /\ reset_counter' = IF AgingDue THEN 0 ELSE reset_counter + 1
                          /\ speculative_states' = DropState(id)
                          /\ last' = [call EXCEPT
                                         !.alloc = IF res.k \in Tables THEN res.k ELSE -1,
                                         !.held = AtBound(state, PC, hist, delta, resolveDir),
                                         !.slot = UpdateSlot(state, PC, hist, delta)]
                          /\ UNCHANGED << pred_cycle, fault >>

---------------------------------------------------------------------------
(* setup and terminate, part_003 lines 126-136 and 159-164.                *)

RECURSIVE TableBits(_)
TableBits(n) ==
    IF n = 0 THEN 0
    ELSE TableBits(n - 1)
         + entries(TAGGED_CONFIGS[n - 1])
           * (TAGGED_CONFIGS[n - 1].tag_bits + TAGE_PRED_BITS + TAGE_USEFUL_BITS)

(* The bit cost summed in lines 127-132, for a build with c's GHR buffer   *)
(* and base table size.                                                    *)
BitCost(c) ==
    (MAX_HISTORY + c.hist_buffer)
    + Pow2(c.base_index_bits) * BASE_PRED_BITS
    + RL_WEIGHTS_BITS * (MAX_HISTORY + 1) * NUM_TAGGED_TABLES
    + TableBits(NUM_TAGGED_TABLES)

(* size = (size >> 3) + (size & 7 > 0 ? 1 : 0), line 133: > binds tighter  *)
(* than &, so the condition is size & 1.                                   *)
BitsToBytes(size) ==
    (size \div 8) + (IF size % 2 # 0 THEN 1 ELSE 0)

(* Whether the assert of line 135 passes.                                  *)
check_memory_budget(c) == BitsToBytes(BitCost(c)) <= MAX_BYTES

setup ==
    /\ aborted' = ~check_memory_budget(cfg)
    /\ last' = [NoCall EXCEPT !.op = "setup"]
    /\ UNCHANGED << predictor, fault, cfg >>

terminate ==
    /\ last' = [NoCall EXCEPT !.op = "terminate"]
    /\ UNCHANGED << predictor, fault, aborted, cfg >>

---------------------------------------------------------------------------
(* The predictor as constructed, part_003 lines 139-157.                   *)

Constructed ==
    /\ use_alt_on_na = USE_ALT_THRESHOLD
    /\ reset_counter = 0
    /\ pred_cycle = 0
    /\ base_table = [x \in 0 .. BaseSize - 1 |-> 0]
    /\ weights = [i \in Tables |-> [j \in 0 .. MAX_HISTORY |-> 0]]
    /\ tagged_tables =
          [i \in Tables |->
              [x \in 0 .. entries(TAGGED_CONFIGS[i]) - 1 |->
                  [tag |-> 0, ctr |-> 0, u |-> 0]]]
    /\ ghr = << >>
    /\ speculative_states = EmptyMap

BuildConfig ==
    [hist_buffer |-> MAX_HISTORY_BUFFER, base_index_bits |-> BASE_INDEX_BITS]

Init ==
    /\ Constructed
    /\ fault = FALSE
    /\ aborted = FALSE
    /\ cfg = BuildConfig
    /\ last = NoCall
    /\ h_open = EmptyMap
    /\ h_owner = << >>
    /\ h_done = EmptyMap
    /\ h_nextSeq = 1
    /\ h_calls = 0
    /\ h_stray = 0

---------------------------------------------------------------------------
(* The harness's own record of the calls it makes.                         *)

NotePredict(id, PC) ==
    /\ h_open' = Put(h_open, id,
                     [pc |-> PC, pred |-> predict_state(PC).final_pred, hu |-> 0,
                      pushed |-> FALSE, born |-> h_calls + 1,
                      slot |-> PredictSlot(PC),
                      own |-> OwnPred(PC),
                      slots |-> [i \in Tables |-> IndexOf(i, PC, ghr, 0)],
                      tags |-> [i \in Tables |-> TagOf(i, PC, ghr, 0)]])
    /\ UNCHANGED << h_owner, h_done >>

NoteHistoryUpdate(id, taken) ==
    /\ h_owner' = Push(h_owner, id)
    /\ h_open' = IF id \in DOMAIN h_open
                 THEN [h_open EXCEPT ![id].hu = @ + 1, ![id].pushed = taken]
                 ELSE h_open
    /\ UNCHANGED h_done

NoteUpdate(id, resolveDir, predDir) ==
    /\ h_open' = [x \in DOMAIN h_open \ {id} |-> h_open[x]]
    /\ h_done' = IF id \in DOMAIN h_open
                 THEN Put(h_done, id,
                          [resolveDir |-> resolveDir, predDir |-> predDir,
                           pc |-> h_open[id].pc, hu |-> h_open[id].hu, pushed |-> h_open[id].pushed,
                           born |-> h_open[id].born, at |-> h_calls + 1])
                 ELSE h_done
    /\ UNCHANGED h_owner

---------------------------------------------------------------------------
(* The harness keeping the call contract: setup comes first, sequence      *)
(* numbers grow, piece is below 16, history_update and update name an open *)
(* identity, update is the last call for its identity and passes the PC of *)
(* its predict.                                                            *)

Idle == UNCHANGED << h_open, h_owner, h_done, h_nextSeq, h_calls, h_stray >>

SeqOf(id) == id \div Pow2(PIECE_BITS)
PieceOf(id) == id % Pow2(PIECE_BITS)

Started == last.op # "none" /\ ~fault /\ ~aborted

LegalSetup ==
    /\ last.op = "none"
    /\ setup
    /\ Idle

LegalPredict(bound) ==
    /\ Started /\ h_calls < bound
    /\ h_nextSeq <= MaxSeq
    /\ \E PC \in PCs :
          /\ predict(h_nextSeq, 0, PC)
          /\ NotePredict(get_unique_inst_id(h_nextSeq, 0), PC)
    /\ h_nextSeq' = h_nextSeq + 1
    /\ h_calls' = h_calls + 1
    /\ UNCHANGED h_stray

LegalHistoryUpdate(bound) ==
    /\ Started /\ h_calls < bound
    /\ \E id \in DOMAIN h_open, taken \in BOOLEAN :
          /\ history_update(SeqOf(id), PieceOf(id), taken)
          /\ NoteHistoryUpdate(id, taken)
    /\ h_calls' = h_calls + 1
    /\ UNCHANGED << h_nextSeq, h_stray >>

LegalUpdate(bound) ==
    /\ Started /\ h_calls < bound
    /\ \E id \in DOMAIN h_open, resolveDir \in BOOLEAN, predDir \in BOOLEAN :
          /\ update(SeqOf(id), PieceOf(id), h_open[id].pc, resolveDir, predDir)
          /\ NoteUpdate(id, resolveDir, predDir)
    /\ h_calls' = h_calls + 1
    /\ UNCHANGED << h_nextSeq, h_stray >>

Next ==
    \/ LegalSetup
    \/ LegalPredict(MaxCalls)
    \/ LegalHistoryUpdate(MaxCalls)
    \/ LegalUpdate(MaxCalls)

Spec == Init /\ [][Next]_vars

---------------------------------------------------------------------------
(* A harness that also breaks the call contract, at most MaxStray times:   *)
(* history_update or update for an identity that is not open, and calls    *)
(* with piece = 16.                                                        *)

StrayIds == {get_unique_inst_id(seq_no, 0) : seq_no \in 1 .. MaxSeq} \ DOMAIN h_open

MayStray == Started /\ h_calls < MaxStrayCalls /\ h_stray < MaxStray

Strayed ==
    /\ h_calls' = h_calls + 1
    /\ h_stray' = h_stray + 1
    /\ UNCHANGED h_nextSeq

StrayHistoryUpdate ==
    /\ MayStray
    /\ \E id \in StrayIds, taken \in BOOLEAN :
          /\ history_update(SeqOf(id), PieceOf(id), taken)
          /\ NoteHistoryUpdate(id, taken)
    /\ Strayed

StrayUpdate ==
    /\ MayStray
    /\ \E id \in StrayIds, PC \in PCs, resolveDir \in BOOLEAN, predDir \in BOOLEAN :
          /\ update(SeqOf(id), PieceOf(id), PC, resolveDir, predDir)
          /\ NoteUpdate(id, resolveDir, predDir)
    /\ Strayed

BigPiece == Pow2(PIECE_BITS)

BigPiecePredict ==
    /\ MayStray
    /\ \E seq_no \in 1 .. MaxSeq, PC \in PCs :
          /\ predict(seq_no, BigPiece, PC)
          /\ NotePredict(get_unique_inst_id(seq_no, BigPiece), PC)
    /\ Strayed

BigPieceHistoryUpdate ==
    /\ MayStray
    /\ \E seq_no \in 1 .. MaxSeq, taken \in BOOLEAN :
          /\ history_update(seq_no, BigPiece, taken)
          /\ NoteHistoryUpdate(get_unique_inst_id(seq_no, BigPiece), taken)
    /\ Strayed

BigPieceUpdate ==
    /\ MayStray
    /\ \E seq_no \in 1 .. MaxSeq, PC \in PCs, resolveDir \in BOOLEAN,
          predDir \in BOOLEAN :
          /\ update(seq_no, BigPiece, PC, resolveDir, predDir)
          /\ NoteUpdate(get_unique_inst_id(seq_no, BigPiece), resolveDir, predDir)
    /\ Strayed

NextAny ==
    \/ LegalSetup
    \/ LegalPredict(MaxStrayCalls)
    \/ LegalHistoryUpdate(MaxStrayCalls)
    \/ LegalUpdate(MaxStrayCalls)
    \/ StrayHistoryUpdate
    \/ StrayUpdate
    \/ BigPiecePredict
    \/ BigPieceHistoryUpdate
    \/ BigPieceUpdate

SpecAny == Init /\ [][NextAny]_vars

---------------------------------------------------------------------------
(* Builds that differ in the size of the GHR buffer and of the base table, *)
(* each running setup once.                                                *)

Builds ==
    [hist_buffer : 0 .. MaxBufferCfg, base_index_bits : 1 .. MaxBaseBitsCfg]

InitBuild ==
    /\ Constructed
    /\ fault = FALSE
    /\ aborted = FALSE
    /\ cfg \in Builds
    /\ last = NoCall
    /\ h_open = EmptyMap
    /\ h_owner = << >>
    /\ h_done = EmptyMap
    /\ h_nextSeq = 1
    /\ h_calls = 0
    /\ h_stray = 0

NextBuild == LegalSetup

SpecBuild == InitBuild /\ [][NextBuild]_vars

---------------------------------------------------------------------------
(* A harness that resolves one branch at a time and repeats it for any     *)
(* number of rounds: predict, one history_update, update, with the same    *)
(* identity reused once it is resolved and the arguments of the first      *)
(* round passed again in every later round. The harness does not count its *)
(* calls, so the reachable states are those of the predictor.              *)

SerialId == get_unique_inst_id(1, 0)

(* The arguments a round may pass: any in the first round, then the same.  *)
SerialArgs ==
    IF SerialId \in DOMAIN h_done
    THEN {[pc |-> h_done[SerialId].pc, taken |-> h_done[SerialId].pushed,
           resolveDir |-> h_done[SerialId].resolveDir,
           predDir |-> h_done[SerialId].predDir]}
    ELSE [pc : PCs, taken : BOOLEAN, resolveDir : BOOLEAN, predDir : BOOLEAN]

SerialPredict ==
    /\ Started
    /\ h_open = EmptyMap
    /\ \E a \in SerialArgs :
          /\ predict(1, 0, a.pc)
          /\ NotePredict(SerialId, a.pc)
    /\ UNCHANGED << h_nextSeq, h_calls, h_stray >>

SerialHistoryUpdate ==
    /\ Started
    /\ SerialId \in DOMAIN h_open
    /\ h_open[SerialId].hu = 0
    /\ \E a \in SerialArgs :
          /\ a.pc = h_open[SerialId].pc
          /\ history_update(1, 0, a.taken)
          /\ NoteHistoryUpdate(SerialId, a.taken)
    /\ UNCHANGED << h_nextSeq, h_calls, h_stray >>

SerialUpdate ==
    /\ Started
    /\ SerialId \in DOMAIN h_open
    /\ h_open[SerialId].hu = 1
    /\ \E a \in SerialArgs :
          /\ a.pc = h_open[SerialId].pc
          /\ a.taken = h_open[SerialId].pushed
          /\ update(1, 0, a.pc, a.resolveDir, a.predDir)
          /\ NoteUpdate(SerialId, a.resolveDir, a.predDir)
    /\ UNCHANGED << h_nextSeq, h_calls, h_stray >>

NextSerial == LegalSetup \/ SerialPredict \/ SerialHistoryUpdate \/ SerialUpdate

SpecSerial == Init /\ [][NextSerial]_vars

---------------------------------------------------------------------------
(* A harness that ends a run with terminate and starts the next one with a *)
(* fresh setup, as the call contract allows; its records of the finished   *)
(* run are dropped at the fresh setup.                                     *)

Running == last.op # "terminate"

LegalTerminate ==
    /\ Started /\ Running /\ h_calls < MaxRestartCalls
    /\ terminate
    /\ h_calls' = h_calls + 1
    /\ UNCHANGED << h_open, h_owner, h_done, h_nextSeq, h_stray >>

FreshSetup ==
    /\ last.op = "terminate" /\ h_calls < MaxRestartCalls
    /\ setup
    /\ h_open' = EmptyMap
    /\ h_owner' = << >>
    /\ h_done' = EmptyMap
    /\ h_nextSeq' = 1
    /\ h_calls' = h_calls + 1
    /\ UNCHANGED h_stray

NextRestart ==
    \/ LegalSetup
    \/ Running /\ LegalPredict(MaxRestartCalls)
    \/ Running /\ LegalHistoryUpdate(MaxRestartCalls)
    \/ Running /\ LegalUpdate(MaxRestartCalls)
    \/ LegalTerminate
    \/ FreshSetup

SpecRestart == Init /\ [][NextRestart]_vars

---------------------------------------------------------------------------
(* A harness for get_unique_inst_id alone: it derives the identity of one  *)
(* legal (seq_no, piece) pair and keeps it, then that of a second pair.    *)
(* The sequence numbers reach past the largest one whose shifted value     *)
(* still fits the width of the identity.                                   *)

SeqNos == 0 .. MaxSeqNo
Pieces == 0 .. Pow2(PIECE_BITS) - 1

IdentifyFirst ==
    /\ last.op = "none"
    /\ \E seq_no \in SeqNos, piece \in Pieces :
          LET id == get_unique_inst_id(seq_no, piece)
          IN  /\ last' = [NoCall EXCEPT !.op = "identify", !.id = id,
                             !.seq_no = seq_no, !.piece = piece]
              /\ h_open' = Put(EmptyMap, id, [seq_no |-> seq_no, piece |-> piece])
    /\ h_calls' = 1
    /\ UNCHANGED << predictor, fault, aborted, cfg, h_owner, h_done, h_nextSeq,
                    h_stray >>

IdentifySecond ==
    /\ last.op = "identify" /\ h_calls = 1
    /\ \E seq_no \in SeqNos, piece \in Pieces :
          last' = [NoCall EXCEPT !.op = "identify",
                      !.id = get_unique_inst_id(seq_no, piece),
                      !.seq_no = seq_no, !.piece = piece]
    /\ h_calls' = 2
    /\ UNCHANGED << predictor, fault, aborted, cfg, h_open, h_owner, h_done,
                    h_nextSeq, h_stray >>

NextId == IdentifyFirst \/ IdentifySecond

SpecId == Init /\ [][NextId]_vars

---------------------------------------------------------------------------
(* Properties of the call contract.                                        *)

(* The calls that belong to the branch A or B alone: predict, one          *)
(* history_update and update of each, six calls with nothing in between    *)
(* or after.                                                               *)
PairAlone(A, B) ==
    /\ A # B
    /\ h_done[A].born < h_done[B].born
    /\ h_done[A].hu = 1 /\ h_done[B].hu = 1
    /\ h_done[A].pushed = h_done[A].predDir
    /\ h_done[B].pushed = h_done[B].predDir
    /\ Len(h_owner) >= 2
    /\ h_owner[Len(h_owner) - 1] = A /\ h_owner[Len(h_owner)] = B
    /\ Max(h_done[A].at, h_done[B].at) = h_done[A].born + 5
    /\ h_calls = h_done[A].born + 5

(* C1: after an update whose resolved direction differs from the predicted *)
(* one, for an identity that received a history_update and whose bit is    *)
(* still in the register, the bit pushed for that identity equals the      *)
(* resolved direction and every other bit of the GHR is unchanged,         *)
(* whatever the calls for other identities in between.                     *)
C1_RollbackAnyInterleaving ==
    [][(/\ last'.op = "update"
        /\ last'.resolveDir # last'.predDir
        /\ last'.hu > 0
        /\ last'.since < Len(ghr))
       => /\ ~fault'
          /\ Len(ghr') = Len(ghr)
          /\ ghr'[LastOwn(last'.id)] = last'.resolveDir
          /\ \A i \in 1 .. Len(ghr) :
                i # LastOwn(last'.id) => ghr'[i] = ghr[i]]_vars

(* C2: when A and B are predicted and pushed in that order and resolved in *)
(* either order, with no other call in between, the last two bits of the   *)
(* GHR are A's resolved direction followed by B's resolved direction.      *)
C2_PushOrderKept ==
    \A A \in DOMAIN h_done, B \in DOMAIN h_done :
        (PairAlone(A, B) /\ ~fault)
        => /\ ghr[Len(ghr) - 1] = h_done[A].resolveDir
           /\ ghr[Len(ghr)] = h_done[B].resolveDir

(* C2 witness: B was resolved before A, and A had been mispredicted.       *)
C2_Witness ==
    \E A \in DOMAIN h_done, B \in DOMAIN h_done :
        /\ PairAlone(A, B) /\ ~fault
        /\ h_done[B].at < h_done[A].at
        /\ h_done[A].resolveDir # h_done[A].predDir

(* C3: after update(id) returns, the checkpoint store has no entry for id, *)
(* whichever branch of update ran.                                         *)
C3_CheckpointDeleted ==
    (last.op = "update" /\ ~fault) => last.id \notin DOMAIN speculative_states

(* C3 witness: an update of a mispredicted branch with a tagged provider   *)
(* has returned and the checkpoint is gone.                                *)
C3_Witness ==
    /\ last.op = "update" /\ ~fault
    /\ last.known
    /\ last.provider # -1
    /\ last.resolveDir # last.predDir
    /\ last.id \notin DOMAIN speculative_states

(* C4: under a legal call sequence the keys of the checkpoint store are    *)
(* the identities that were predicted and not yet updated.                 *)
C4_NoCheckpointLeak ==
    ~fault => DOMAIN speculative_states = DOMAIN h_open

(* C4 witness: two branches were predicted and both resolved, and the      *)
(* store is empty again.                                                   *)
C4_Witness ==
    /\ ~fault
    /\ Cardinality(DOMAIN h_done) >= 2
    /\ h_open = EmptyMap
    /\ speculative_states = EmptyMap

(* C5: an update for an identity without a checkpoint fails at once and    *)
(* leaves the GHR, the tagged tables, the base table and the meta-counter  *)
(* unchanged.                                                              *)
C5_UnknownUpdateFails ==
    [][(last'.op = "update" /\ ~last'.known)
       => /\ aborted'
          /\ UNCHANGED << ghr, tagged_tables, base_table, use_alt_on_na >>]_vars

(* C6: a history_update for an identity without a checkpoint fails at      *)
(* once, pushes no bit and creates no checkpoint.                          *)
C6_UnknownHistoryUpdateFails ==
    [][(last'.op = "history_update" /\ ~last'.known)
       => /\ aborted'
          /\ ghr' = ghr
          /\ last'.id \notin DOMAIN speculative_states']_vars

(* C7: a call with piece >= 16 fails at once: it neither changes the       *)
(* predictor nor acts on the identity of piece mod 16.                     *)
C7_BigPieceFails ==
    [][(last'.op \in {"predict", "history_update", "update"}
        /\ last'.piece >= Pow2(PIECE_BITS))
       => /\ aborted'
          /\ UNCHANGED predictor]_vars

(* C8: every tagged counter is in [-4, 3], every usefulness in [0, 3],     *)
(* every base counter in [-2, 1] and the meta-counter in [0, 15]: a step   *)
(* at the bound leaves the counter there.                                  *)
C8_Saturation ==
    /\ \A i \in Tables : \A x \in DOMAIN tagged_tables[i] :
          /\ tagged_tables[i][x].ctr \in
                (0 - Pow2(TAGE_PRED_BITS - 1)) .. (Pow2(TAGE_PRED_BITS - 1) - 1)
          /\ tagged_tables[i][x].u \in 0 .. (Pow2(TAGE_USEFUL_BITS) - 1)
    /\ \A x \in DOMAIN base_table :
          base_table[x] \in
             (0 - Pow2(BASE_PRED_BITS - 1)) .. (Pow2(BASE_PRED_BITS - 1) - 1)
    /\ use_alt_on_na \in 0 .. USE_ALT_MAX

(* C8 witness: an update stepped a tagged counter upward that was already  *)
(* at its upper bound.                                                     *)
C8_Witness ==
    /\ last.op = "update" /\ ~fault
    /\ last.held
    /\ last.provider # -1
    /\ last.resolveDir

(* C9: setup fails for every build whose bit cost exceeds 8 * MAX_BYTES.   *)
C9_BudgetEnforced ==
    (last.op = "setup" /\ BitCost(cfg) > 8 * MAX_BYTES) => aborted

(* C10, as stated: the first predict on a freshly built predictor returns  *)
(* the cold-start direction of the base predictor, which is not-taken.     *)
C10_ColdNotTaken ==
    (last.op = "predict" /\ h_calls = 1)
    => /\ last.ret = BasePred(base_table[last.pc % BaseSize])
       /\ last.ret = FALSE

(* C10, amended: the first predict on a freshly built predictor returns    *)
(* the cold-start direction of the base predictor, which is taken.         *)
C10_ColdTaken ==
    (last.op = "predict" /\ h_calls = 1)
    => /\ last.ret = BasePred(base_table[last.pc % BaseSize])
       /\ last.ret = TRUE

(* C10 witness: the first predict found no tagged entry and returned the   *)
(* base prediction.                                                        *)
C10_Witness ==
    /\ last.op = "predict" /\ h_calls = 1
    /\ last.provider = -1
    /\ last.ret

(* C11: on a cold predictor, predict for a PC followed by update with      *)
(* resolveDir = TRUE for the same identity leaves the base counter of      *)
(* PC % BaseSize one step above its cold-start value 0, and a second       *)
(* predict for the same PC, the GHR unchanged, returns the direction of    *)
(* that base counter.                                                      *)
C11_ColdLearning ==
    /\ (h_calls = 2 /\ last.op = "update" /\ last.resolveDir /\ ~fault)
       => base_table[last.pc % BaseSize] = CtrUp(0, BASE_PRED_BITS)
    /\ (/\ h_calls = 3 /\ last.op = "predict" /\ ghr = << >>
        /\ \E id \in DOMAIN h_done :
              h_done[id].pc = last.pc /\ h_done[id].resolveDir)
       => last.ret = BasePred(base_table[last.pc % BaseSize])

(* C12: the calls are deterministic: the state an update leaves is fixed   *)
(* by the state before it and its arguments, and no value update reads,    *)
(* the checkpoint's cycle marker included, is indeterminate.               *)
C12_Deterministic ==
    [][last'.op = "update"
       => /\ \A t1 \in CycleReads(StateOf(last'.id)) :
             \A t2 \in CycleReads(StateOf(last'.id)) :
                GhrAfter(StateOf(last'.id), t1, last'.resolveDir, last'.predDir)
                = GhrAfter(StateOf(last'.id), t2, last'.resolveDir, last'.predDir)
          /\ StateOf(last'.id).pred_cycle # Indeterminate]_vars

(* C13: a predict call leaves the GHR, the tagged tables, the base table,  *)
(* the meta-counter and the cycle counter unchanged and adds exactly one   *)
(* checkpoint, keyed by the call's identity, which holds the provider      *)
(* table, the alternate bit and the final bit that the call returns; the   *)
(* other checkpoints stay as they were.                                    *)
C13_PredictFrame ==
    [][last'.op = "predict"
       => /\ UNCHANGED << ghr, tagged_tables, base_table, use_alt_on_na,
                          pred_cycle >>
          /\ last'.id \notin DOMAIN speculative_states
          /\ DOMAIN speculative_states' = DOMAIN speculative_states \cup {last'.id}
          /\ \A k \in DOMAIN speculative_states :
                speculative_states'[k] = speculative_states[k]
          /\ speculative_states'[last'.id].provider_table = last'.provider
          /\ speculative_states'[last'.id].altpred = predict_state(last'.pc).altpred
          /\ speculative_states'[last'.id].final_pred = last'.ret]_vars

(* C13 witness: a predict found a tagged provider on a non-empty GHR while *)
(* another branch was open, and its checkpoint holds the returned bit.     *)
C13_Witness ==
    /\ last.op = "predict"
    /\ last.provider # -1
    /\ ghr # << >>
    /\ Cardinality(DOMAIN speculative_states) >= 2
    /\ speculative_states[last.id].final_pred = last.ret

(* C14: after setup returns, whatever calls preceded it, the GHR is empty, *)
(* every tagged entry, every base counter, the meta-counter and the aging  *)
(* counter hold their cold-start values and the checkpoint store is empty. *)
C14_SetupReinitialises ==
    (last.op = "setup" /\ ~aborted)
    => /\ ghr = << >>
       /\ \A i \in Tables : \A x \in DOMAIN tagged_tables[i] :
             tagged_tables[i][x] = [tag |-> 0, ctr |-> 0, u |-> 0]
       /\ \A x \in DOMAIN base_table : base_table[x] = 0
       /\ use_alt_on_na = USE_ALT_THRESHOLD
       /\ reset_counter = 0
       /\ speculative_states = EmptyMap

(* C15: after terminate returns the checkpoint store is empty and the GHR  *)
(* and the tables hold no state of the finished run.                       *)
C15_TerminateClears ==
    last.op = "terminate"
    => /\ speculative_states = EmptyMap
       /\ ghr = << >>
       /\ tagged_tables = [i \in Tables |->
                             [x \in 0 .. entries(TAGGED_CONFIGS[i]) - 1 |->
                                 [tag |-> 0, ctr |-> 0, u |-> 0]]]
       /\ base_table = [x \in 0 .. BaseSize - 1 |-> 0]

(* C16: get_unique_inst_id is injective on legal inputs: two different     *)
(* (seq_no, piece) pairs with piece < 16 never yield the same identity.    *)
C16_IdentityInjective ==
    (last.op = "identify" /\ last.id \in DOMAIN h_open)
    => h_open[last.id] = [seq_no |-> last.seq_no, piece |-> last.piece]

(* C17: an update whose checkpoint names a tagged provider table trains    *)
(* the entry of that table that matched at predict: the index update       *)
(* recomputes with the delta skip equals the index predict computed,       *)
(* whatever history_update calls and resolutions came in between.          *)
C17_UpdateTargetsPredictingSlot ==
    [][(last'.op = "update" /\ last'.known /\ last'.provider # -1 /\ ~fault')
       => last'.slot = h_open[last'.id].slot]_vars

(* C18: in update(id), delta equals the number of history_update calls     *)
(* made after the one that pushed id's bit, for every such number, so that *)
(* the GHR position length - delta - 1 is the position of id's own bit     *)
(* (Len(ghr) - delta when positions are counted from 1).                   *)
C18_DeltaCountsPushes ==
    [][(last'.op = "update" /\ last'.hu > 0 /\ last'.since < Len(ghr))
       => /\ last'.delta = last'.since
          /\ Len(ghr) - last'.delta = LastOwn(last'.id)]_vars

(* C19: after history_update(id, taken) the GHR is the GHR before the call *)
(* with taken appended as the most recent bit, the oldest bit dropped only *)
(* when the length would exceed MAX_HISTORY + MAX_HISTORY_BUFFER; the      *)
(* checkpoint of id holds the cycle marker of that push, which designates  *)
(* the newest position; and the GHR is never longer than                   *)
(* MAX_HISTORY + MAX_HISTORY_BUFFER.                                       *)
C19_HistoryUpdateAppends ==
    [][last'.op = "history_update"
       => /\ ghr' = IF Len(ghr) < MAX_HISTORY + MAX_HISTORY_BUFFER
                    THEN Append(ghr, last'.taken)
                    ELSE Append(Tail(ghr), last'.taken)
          /\ ghr'[Len(ghr')] = last'.taken
          /\ Len(ghr') <= MAX_HISTORY + MAX_HISTORY_BUFFER
          /\ last'.id \in DOMAIN speculative_states'
          /\ speculative_states'[last'.id].pred_cycle = pred_cycle'
          /\ pred_cycle' = (pred_cycle + 1) % CycleMod]_vars

(* C19 witness: one branch received more history_update calls than the     *)
(* GHR holds bits, so the last call dropped the oldest bit.                *)
C19_Witness ==
    /\ last.op = "history_update"
    /\ Len(ghr) = MAX_HISTORY + MAX_HISTORY_BUFFER
    /\ h_calls = MAX_HISTORY + MAX_HISTORY_BUFFER + 2
    /\ Cardinality(DOMAIN h_open) = 1
    /\ h_done = EmptyMap
    /\ speculative_states[last.id].pred_cycle = pred_cycle

(* The GHR positions whose bit was pushed for an identity other than id.   *)
OthersBits(id) == {i \in 1 .. Len(h_owner) : h_owner[i] # id}

(* C20: an update for an identity that was predicted and received no       *)
(* history_update completes without an access outside the GHR, changes no  *)
(* GHR bit pushed by another identity and erases the checkpoint, whether   *)
(* the resolved direction equals the predicted one or not.                 *)
C20_ZeroHistoryUpdates ==
    [][(last'.op = "update" /\ last'.known /\ last'.hu = 0)
       => /\ ~fault'
          /\ \A i \in OthersBits(last'.id) : ghr'[i] = ghr[i]
          /\ last'.id \notin DOMAIN speculative_states']_vars

(* C21: an update whose resolved direction equals the predicted one leaves *)
(* every GHR bit unchanged, and no update changes the length of the GHR or *)
(* more than one of its bits.                                              *)
C21_UpdateKeepsHistory ==
    [][(last'.op = "update" /\ ~fault')
       => /\ Len(ghr') = Len(ghr)
          /\ (last'.resolveDir = last'.predDir => ghr' = ghr)
          /\ Cardinality({i \in 1 .. Len(ghr) : ghr'[i] # ghr[i]}) <= 1]_vars

(* C21 witness: a mispredicted update has rewritten the bit pushed for its *)
(* identity, the newest of three, to the resolved direction.               *)
C21_Witness ==
    /\ last.op = "update" /\ ~fault
    /\ last.resolveDir # last.predDir
    /\ last.hu > 0 /\ last.since = 0
    /\ Len(ghr) >= 3
    /\ h_done[last.id].pushed # last.resolveDir
    /\ ghr[Len(ghr)] = last.resolveDir

(* The tables whose indexed entry matches the tag of the last predict, and *)
(* the direction of such an entry.                                         *)
Matches == {i \in Tables : TagMatch(i, last.pc)}
DirOf(i) == tagged_tables[i][IndexOf(i, last.pc, ghr, 0)].ctr >= 0

---------------------------------------------------------------------------
(* A harness that trains the predictor: one branch at a time, for at most  *)
(* MaxRounds rounds; each round is predict, one history_update with the    *)
(* predicted direction, and update with the prediction predict returned.   *)

MaxRounds == 8

TrainId == get_unique_inst_id(1, 0)

TrainPredict ==
    /\ Started
    /\ h_open = EmptyMap
    /\ h_calls < MaxRounds
    /\ \E PC \in PCs :
          /\ predict(1, 0, PC)
          /\ NotePredict(TrainId, PC)
    /\ h_calls' = h_calls + 1
    /\ UNCHANGED << h_nextSeq, h_stray >>

TrainHistoryUpdate ==
    /\ Started
    /\ TrainId \in DOMAIN h_open
    /\ h_open[TrainId].hu = 0
    /\ history_update(1, 0, h_open[TrainId].pred)
    /\ NoteHistoryUpdate(TrainId, h_open[TrainId].pred)
    /\ UNCHANGED << h_nextSeq, h_calls, h_stray >>

TrainUpdate ==
    /\ Started
    /\ TrainId \in DOMAIN h_open
    /\ h_open[TrainId].hu = 1
    /\ \E resolveDir \in BOOLEAN :
          /\ update(1, 0, h_open[TrainId].pc, resolveDir, h_open[TrainId].pred)
          /\ NoteUpdate(TrainId, resolveDir, h_open[TrainId].pred)
    /\ UNCHANGED << h_nextSeq, h_calls, h_stray >>

NextTrain == LegalSetup \/ TrainPredict \/ TrainHistoryUpdate \/ TrainUpdate

SpecTrain == Init /\ [][NextTrain]_vars

---------------------------------------------------------------------------
---------------------------------------------------------------------------
(* The training harness on two PCs that are congruent modulo the size of   *)
(* the base table, for at most MaxAliasRounds rounds.                      *)

MaxAliasRounds == 5

AliasPCs == {1, 1 + BaseSize}

AliasPredict ==
    /\ Started
    /\ h_open = EmptyMap
    /\ h_calls < MaxAliasRounds
    /\ \E PC \in AliasPCs :
          /\ predict(1, 0, PC)
          /\ NotePredict(TrainId, PC)
    /\ h_calls' = h_calls + 1
    /\ UNCHANGED << h_nextSeq, h_stray >>

NextAlias == LegalSetup \/ AliasPredict \/ TrainHistoryUpdate \/ TrainUpdate

SpecAlias == Init /\ [][NextAlias]_vars

---------------------------------------------------------------------------
---------------------------------------------------------------------------
(* compute_hash on its own: one call on a PC up to MaxHashPC, a history of *)
(* up to MaxHashLen bits, a history length up to MaxHashLen, a skip within *)
(* the history and a width up to MaxHashBits.                              *)

MaxHashPC == 5
MaxHashLen == 4
MaxHashBits == 2

Hists == UNION {[1 .. n -> BOOLEAN] : n \in 0 .. MaxHashLen}

HashCall ==
    /\ last.op = "none"
    /\ \E pc \in 0 .. MaxHashPC, hist \in Hists, hist_len \in 1 .. MaxHashLen,
          out_bits \in 1 .. MaxHashBits :
          \E skip_hist \in 0 .. Len(hist) :
             /\ last' = [NoCall EXCEPT !.op = "compute_hash", !.pc = pc]
             /\ h_open' = [pc |-> pc, hist |-> hist, hist_len |-> hist_len,
                           skip_hist |-> skip_hist, out_bits |-> out_bits,
                           ret |-> compute_hash(pc, hist, hist_len, skip_hist, out_bits)]
    /\ h_calls' = 1
    /\ UNCHANGED << predictor, fault, aborted, cfg, h_owner, h_done, h_nextSeq,
                    h_stray >>

NextHash == HashCall

SpecHash == Init /\ [][NextHash]_vars

---------------------------------------------------------------------------
---------------------------------------------------------------------------
(* The snapshot-based variant: the first class of                          *)
(* src/stash/my_cond_branch_predictor_tage_good.h. Its checkpoint holds a  *)
(* copy of the GHR, its hash takes no skip, its GHR holds MAX_HISTORY bits *)
(* and it has no table-selection weights; its table updates are those of   *)
(* part_003 computed on the checkpoint's copy.                             *)

good_compute_hash(pc, hist, hist_len, out_bits) ==
    HashLoop(pc, hist, hist_len, 0, out_bits, 0) % Pow2(out_bits)

good_IndexOf(i, PC, hist) ==
    good_compute_hash(PC, hist, TAGGED_CONFIGS[i].hist_len,
                      TAGGED_CONFIGS[i].index_bits) % entries(TAGGED_CONFIGS[i])

good_TagOf(i, PC, hist) ==
    good_compute_hash(PC, hist, TAGGED_CONFIGS[i].hist_len, TAGGED_CONFIGS[i].tag_bits)

good_predict_state(PC) ==
    LET base_pred == base_table[PC % BaseSize] >= 0
        hits == {i \in Tables :
                    tagged_tables[i][good_IndexOf(i, PC, ghr)].tag = good_TagOf(i, PC, ghr)}
        provider == IF hits = {} THEN -1 ELSE CHOOSE i \in hits : \A j \in hits : j <= i
        alts == {j \in hits : j < provider}
        CtrOf(i) == tagged_tables[i][good_IndexOf(i, PC, ghr)].ctr
        altpred == IF alts = {} THEN base_pred
                   ELSE CtrOf(CHOOSE i \in alts : \A j \in alts : j <= i) >= 0
        own == IF provider = -1 THEN base_pred ELSE CtrOf(provider) >= 0
        final == IF provider # -1 /\ Abs(CtrOf(provider)) <= 1
                    /\ use_alt_on_na >= USE_ALT_THRESHOLD
                 THEN altpred ELSE own
    IN  [ghr_snapshot |-> ghr, provider_table |-> provider, altpred |-> altpred,
         final_pred |-> final]

good_predict(seq_no, piece, PC) ==
    LET id == get_unique_inst_id(seq_no, piece)
        state == good_predict_state(PC)
    IN  /\ speculative_states' = Put(speculative_states, id, state)
        /\ last' = [NoCall EXCEPT !.op = "predict", !.id = id, !.seq_no = seq_no,
                       !.piece = piece, !.pc = PC, !.ret = state.final_pred,
                       !.provider = state.provider_table]
        /\ UNCHANGED << pred_cycle, base_table, weights, tagged_tables, ghr,
                        use_alt_on_na, reset_counter, fault, aborted, cfg >>

good_Push(q, x) ==
    IF Len(q) + 1 > MAX_HISTORY THEN Tail(Append(q, x)) ELSE Append(q, x)

(* For an identity that has a checkpoint.                                  *)
good_history_update(seq_no, piece, taken) ==
    LET id == get_unique_inst_id(seq_no, piece)
        snapshot == good_Push(speculative_states[id].ghr_snapshot, taken)
    IN  /\ speculative_states' = [speculative_states EXCEPT ![id].ghr_snapshot = snapshot]
        /\ ghr' = snapshot
        /\ last' = [NoCall EXCEPT !.op = "history_update", !.id = id,
                       !.seq_no = seq_no, !.piece = piece, !.taken = taken,
                       !.known = TRUE]
        /\ UNCHANGED << pred_cycle, base_table, weights, tagged_tables,
                        use_alt_on_na, reset_counter, fault, aborted, cfg >>

(* For an identity that has a checkpoint.                                  *)
good_update(seq_no, piece, PC, resolveDir, predDir) ==
    LET id == get_unique_inst_id(seq_no, piece)
        state == speculative_states[id]
        res == TablesAfter(state, PC, state.ghr_snapshot, 0, resolveDir, predDir)
    IN  /\ ghr' = IF predDir # resolveDir
                  THEN good_Push(state.ghr_snapshot, resolveDir)
                  ELSE ghr
        /\ tagged_tables' = IF AgingDue THEN Age(res.tt) ELSE res.tt
        /\ base_table' = IF state.provider_table = -1
                         THEN BaseUpdate(base_table, PC, resolveDir)
                         ELSE base_table
        /\ use_alt_on_na' = MetaUpdate(use_alt_on_na, state, resolveDir, predDir)
        /\ reset_counter' = IF AgingDue THEN 0 ELSE reset_counter + 1
        /\ speculative_states' = Erase(speculative_states, id)
        /\ last' = [NoCall EXCEPT !.op = "update", !.id = id, !.seq_no = seq_no,
                       !.piece = piece, !.pc = PC, !.resolveDir = resolveDir,
                       !.predDir = predDir, !.known = TRUE,
                       !.provider = state.provider_table]
        /\ UNCHANGED << pred_cycle, weights, fault, aborted, cfg >>

good_check_memory_budget ==
    BitsToBytes(MAX_HISTORY + BaseSize * BASE_PRED_BITS + TableBits(NUM_TAGGED_TABLES))
    <= MAX_BYTES

good_setup ==
    /\ aborted' = ~good_check_memory_budget
    /\ last' = [NoCall EXCEPT !.op = "setup"]
    /\ UNCHANGED << predictor, fault, cfg >>

(* The harness of the snapshot-based variant: at most MaxGoodCalls calls   *)
(* after setup, identities in sequence order, one history_update per       *)
(* identity, update with the prediction predict returned; h_owner is the   *)
(* log of the calls, each with the GHR it found.                           *)

MaxGoodCalls == 6

GoodLogged(call) ==
    /\ h_owner' = Append(h_owner, call)
    /\ h_calls' = h_calls + 1
    /\ UNCHANGED << h_done, h_stray >>

GoodSetup ==
    /\ last.op = "none"
    /\ good_setup
    /\ Idle

GoodPredict ==
    /\ Started /\ h_calls < MaxGoodCalls
    /\ h_nextSeq <= MaxSeq
    /\ \E PC \in PCs :
          LET id == get_unique_inst_id(h_nextSeq, 0)
          IN  /\ good_predict(h_nextSeq, 0, PC)
              /\ h_open' = Put(h_open, id,
                               [pc |-> PC, pred |-> good_predict_state(PC).final_pred,
                                hu |-> 0])
              /\ GoodLogged([op |-> "predict", id |-> id, bit |-> FALSE,
                             wrong |-> FALSE, before |-> ghr])
    /\ h_nextSeq' = h_nextSeq + 1

GoodHistoryUpdate ==
    /\ Started /\ h_calls < MaxGoodCalls
    /\ \E id \in DOMAIN h_open, taken \in BOOLEAN :
          /\ h_open[id].hu = 0
          /\ good_history_update(SeqOf(id), PieceOf(id), taken)
          /\ h_open' = [h_open EXCEPT ![id].hu = 1]
          /\ GoodLogged([op |-> "history_update", id |-> id, bit |-> taken,
                         wrong |-> FALSE, before |-> ghr])
    /\ UNCHANGED h_nextSeq

GoodUpdate ==
    /\ Started /\ h_calls < MaxGoodCalls
    /\ \E id \in DOMAIN h_open, resolveDir \in BOOLEAN :
          /\ good_update(SeqOf(id), PieceOf(id), h_open[id].pc, resolveDir,
                         h_open[id].pred)
          /\ h_open' = Erase(h_open, id)
          /\ GoodLogged([op |-> "update", id |-> id, bit |-> resolveDir,
                         wrong |-> resolveDir # h_open[id].pred, before |-> ghr])
    /\ UNCHANGED h_nextSeq

NextGood == GoodSetup \/ GoodPredict \/ GoodHistoryUpdate \/ GoodUpdate

SpecGood == Init /\ [][NextGood]_vars

---------------------------------------------------------------------------
(* The counter of the provider entry of the last predict.                  *)
ProviderCtr == tagged_tables[last.provider][IndexOf(last.provider, last.pc, ghr, 0)].ctr

(* C23: with a provider, predict returns (provider counter >= 0), unless   *)
(* the counter is in -1 .. 1 and the meta-counter is at or above           *)
(* USE_ALT_THRESHOLD, when it returns the alternate bit; with no matching  *)
(* table it returns the base prediction and the checkpoint holds provider  *)
(* none and alternate bit = final bit = base prediction.                   *)
C23_FinalPrediction ==
    last.op = "predict"
    => LET st == speculative_states[last.id]
           base == base_table[last.pc % BaseSize] >= 0
       IN  /\ st.provider_table = last.provider
           /\ st.final_pred = last.ret
           /\ IF last.provider = -1
              THEN /\ Matches = {}
                   /\ last.ret = base
                   /\ st.altpred = base
              ELSE last.ret = IF /\ ProviderCtr \in -1 .. 1
                                 /\ use_alt_on_na >= USE_ALT_THRESHOLD
                              THEN st.altpred
                              ELSE ProviderCtr >= 0

(* C23 witness: a weak provider was overridden by an alternate bit of the  *)
(* other direction.                                                        *)
C23_Witness ==
    /\ last.op = "predict"
    /\ last.provider # -1
    /\ ProviderCtr \in -1 .. 1
    /\ use_alt_on_na >= USE_ALT_THRESHOLD
    /\ speculative_states[last.id].altpred # (ProviderCtr >= 0)
    /\ last.ret = speculative_states[last.id].altpred

(* C24: an update that resolves a wrong prediction made with no tagged     *)
(* provider plants a new entry (the tag of the branch, counter 0 if taken  *)
(* else -1, usefulness 0) in the first table, in ascending order, whose    *)
(* slot for the branch has usefulness 0.                                   *)
C24_BaseAllocates ==
    [][(/\ last'.op = "update" /\ last'.known /\ ~fault'
        /\ last'.provider = -1
        /\ last'.predDir = h_open[last'.id].pred
        /\ last'.resolveDir # last'.predDir)
       => LET o == h_open[last'.id]
              free == {k \in Tables : tagged_tables[k][o.slots[k]].u = 0}
          IN  free # {}
              => LET k == CHOOSE x \in free : \A y \in free : x <= y
                 IN  tagged_tables'[k][o.slots[k]] =
                        [tag |-> o.tags[k],
                         ctr |-> IF last'.resolveDir THEN 0 ELSE -1,
                         u |-> 0]]_vars

(* The entries of the tagged tables, as pairs << table, slot >>, and the   *)
(* ones a step leaves with their tag and counter.                          *)
Slots == {<< i, x >> : i \in Tables, x \in 0 .. entries(TAGGED_CONFIGS[0]) - 1}
Kept(e) ==
    /\ tagged_tables'[e[1]][e[2]].tag = tagged_tables[e[1]][e[2]].tag
    /\ tagged_tables'[e[1]][e[2]].ctr = tagged_tables[e[1]][e[2]].ctr

(* An update of an open identity that resolves a wrong prediction, made    *)
(* with a tagged provider, with the prediction predict returned.           *)
WrongWithProvider ==
    /\ last'.op = "update" /\ last'.known /\ ~fault'
    /\ last'.provider # -1
    /\ last'.predDir = h_open[last'.id].pred
    /\ last'.resolveDir # last'.predDir

(* C25: on a wrong prediction with tagged provider p, update overwrites    *)
(* exactly one entry: the slot of the branch (index and tag hashed from    *)
(* the history as it stood at predict) in the first table k > p where that *)
(* slot has usefulness 0; it gets counter 0 if taken else -1 and           *)
(* usefulness 0; no entry with usefulness > 0 and no table <= p is         *)
(* overwritten.                                                            *)
C25_AllocationPolicy ==
    [][WrongWithProvider
       => LET o == h_open[last'.id]
              p == last'.provider
              own == << p, o.slot >>
              free == {k \in p + 1 .. NUM_TAGGED_TABLES - 1 :
                          tagged_tables[k][o.slots[k]].u = 0}
          IN  /\ free # {}
                 => LET k == CHOOSE x \in free : \A y \in free : x <= y
                    IN  /\ tagged_tables'[k][o.slots[k]] =
                              [tag |-> o.tags[k],
                               ctr |-> IF last'.resolveDir THEN 0 ELSE -1,
                               u |-> 0]
                        /\ \A e \in Slots \ {own, << k, o.slots[k] >>} : Kept(e)
              /\ \A e \in Slots \ {own} :
                    tagged_tables[e[1]][e[2]].u > 0 \/ e[1] <= p => Kept(e)]_vars

(* The tables above the provider whose slot, as update indexes it, has     *)
(* usefulness 0 before the step.                                           *)
FreeAbove ==
    {k \in last'.provider + 1 .. NUM_TAGGED_TABLES - 1 :
        tagged_tables[k][IndexOf(k, last'.pc, ghr', last'.delta)].u = 0}

(* An update of an open identity, made with a tagged provider, that passes *)
(* the prediction predict returned.                                        *)
HonestWithProvider ==
    /\ last'.op = "update" /\ last'.known /\ ~fault'
    /\ last'.provider # -1
    /\ last'.predDir = h_open[last'.id].pred

(* C26: update allocates (where a table above the provider has a free      *)
(* slot) exactly when the provider's own bit differed from the resolved    *)
(* outcome, whether the final prediction was the provider's bit or the     *)
(* alternate's.                                                            *)
C26_AllocationTrigger ==
    [][HonestWithProvider /\ FreeAbove # {}
       => (last'.alloc # -1 <=> h_open[last'.id].own # last'.resolveDir)]_vars

(* C27: when update resolves a wrong prediction made with a tagged         *)
(* provider that is not the last table, and the slot of the branch has     *)
(* usefulness > 0 in every table above the provider, update changes no     *)
(* entry other than the provider's own (the one that matched at predict),  *)
(* raises no error and erases the checkpoint.                              *)
C27_NoFreeSlotNoOp ==
    [][(/\ last'.op = "update" /\ last'.known
        /\ last'.provider \in 0 .. NUM_TAGGED_TABLES - 2
        /\ last'.predDir = h_open[last'.id].pred
        /\ last'.resolveDir # last'.predDir
        /\ \A k \in last'.provider + 1 .. NUM_TAGGED_TABLES - 1 :
              tagged_tables[k][h_open[last'.id].slots[k]].u > 0)
       => /\ ~fault'
          /\ last'.id \notin DOMAIN speculative_states'
          /\ \A e \in Slots \ {<< last'.provider, h_open[last'.id].slot >>} :
                tagged_tables'[e[1]][e[2]] = tagged_tables[e[1]][e[2]]]_vars

(* A counter moved one step toward an outcome, and a usefulness moved one  *)
(* step, both saturating.                                                  *)
Toward(ctr, resolveDir) ==
    IF resolveDir THEN Min(ctr + 1, Pow2(TAGE_PRED_BITS - 1) - 1)
    ELSE Max(ctr - 1, 0 - Pow2(TAGE_PRED_BITS - 1))
Useful(u, right) ==
    IF right THEN Min(u + 1, Pow2(TAGE_USEFUL_BITS) - 1) ELSE Max(u - 1, 0)

(* C28: with a tagged provider, an update outside the aging step moves the *)
(* counter of the provider's entry (the one that matched at predict) one   *)
(* step toward the outcome, and changes its usefulness only when the       *)
(* provider's own bit differed from the alternate bit: up when the         *)
(* provider was right, down when it was wrong.                             *)
C28_ProviderTrained ==
    [][HonestWithProvider /\ ~AgingDue
       => LET o == h_open[last'.id]
              old == tagged_tables[last'.provider][o.slot]
              new == tagged_tables'[last'.provider][o.slot]
              alt == speculative_states[last'.id].altpred
          IN  /\ new.tag = old.tag
              /\ new.ctr = Toward(old.ctr, last'.resolveDir)
              /\ new.u = IF o.own # alt
                         THEN Useful(old.u, o.own = last'.resolveDir)
                         ELSE old.u]_vars

(* C29: with a tagged provider, update raises the meta-counter (up to      *)
(* USE_ALT_MAX) when the alternate bit equals the outcome and the          *)
(* provider's own bit does not, lowers it (down to 0) when the provider's  *)
(* own bit equals the outcome and the alternate bit does not, and leaves   *)
(* it otherwise; with no tagged provider it is unchanged.                  *)
C29_MetaCounter ==
    [][(/\ last'.op = "update" /\ last'.known /\ ~fault'
        /\ last'.predDir = h_open[last'.id].pred)
       => LET own == h_open[last'.id].own
              alt == speculative_states[last'.id].altpred
              res == last'.resolveDir
          IN  use_alt_on_na' =
                 IF last'.provider = -1 THEN use_alt_on_na
                 ELSE IF alt = res /\ own # res THEN Min(use_alt_on_na + 1, USE_ALT_MAX)
                 ELSE IF own = res /\ alt # res THEN Max(use_alt_on_na - 1, 0)
                 ELSE use_alt_on_na]_vars

(* The usefulness of an entry, before and after a step.                    *)
UOf(e) == tagged_tables[e[1]][e[2]].u
UOfNext(e) == tagged_tables'[e[1]][e[2]].u

(* C30: counting updates from the cold start (in the training harness the  *)
(* update of round n is the n-th), every RESET_PERIOD-th update halves,    *)
(* rounding down, every usefulness of every tagged table and restarts the  *)
(* period counter at 0; every other update changes no usefulness except    *)
(* that of the provider's entry (the one that matched at predict) and      *)
(* raises the period counter by one, which stays in [0, RESET_PERIOD).     *)
C30_PeriodicAging ==
    [][(last'.op = "update" /\ last'.known /\ ~fault')
       => LET own == << last'.provider, h_open[last'.id].slot >>
          IN  /\ reset_counter' \in 0 .. RESET_PERIOD - 1
              /\ IF h_calls % RESET_PERIOD = 0
                 THEN /\ reset_counter' = 0
                      /\ \A e \in Slots \ {own} : UOfNext(e) = UOf(e) \div 2
                      /\ own \in Slots
                         => UOfNext(own) \in {Max(UOf(own) - 1, 0) \div 2, UOf(own) \div 2,
                                              Min(UOf(own) + 1, Pow2(TAGE_USEFUL_BITS) - 1) \div 2}
                 ELSE /\ reset_counter' = reset_counter + 1
                      /\ \A e \in Slots \ {own} : UOfNext(e) = UOf(e)]_vars

(* C31: an update whose checkpoint names no tagged provider moves the base *)
(* counter at PC % BaseSize one step toward the outcome, saturating in     *)
(* [-2^(BASE_PRED_BITS-1), 2^(BASE_PRED_BITS-1) - 1], and leaves every     *)
(* other base counter; PCs congruent modulo BaseSize move the same one.    *)
C31_BaseCounter ==
    [][(last'.op = "update" /\ last'.known /\ ~fault' /\ last'.provider = -1)
       => LET x == last'.pc % BaseSize
              lo == 0 - Pow2(BASE_PRED_BITS - 1)
              hi == Pow2(BASE_PRED_BITS - 1) - 1
          IN  /\ base_table'[x] = IF last'.resolveDir
                                  THEN (IF base_table[x] = hi THEN hi ELSE base_table[x] + 1)
                                  ELSE (IF base_table[x] = lo THEN lo ELSE base_table[x] - 1)
              /\ base_table'[x] \in lo .. hi
              /\ \A y \in DOMAIN base_table \ {x} : base_table'[y] = base_table[y]
              /\ DOMAIN base_table' = DOMAIN base_table]_vars

(* C31 witness: the counter both PCs share stands at its lower bound after *)
(* updates of the larger PC and is read by a predict of the smaller one.   *)
C31_Witness ==
    /\ last.op = "predict" /\ last.pc = 1 /\ last.provider = -1
    /\ base_table[1] = 0 - Pow2(BASE_PRED_BITS - 1)
    /\ base_table[0] = 0
    /\ TrainId \in DOMAIN h_done /\ h_done[TrainId].pc = 1 + BaseSize
    /\ ~last.ret

(* The bits compute_hash may read: at most hist_len bits of hist, newest   *)
(* first, after leaving out the skip newest ones.                          *)
Window(hist, skip, hist_len) ==
    [i \in 1 .. Min(hist_len, Len(hist) - skip) |-> hist[Len(hist) - skip - i + 1]]

(* Bit b of (pc XOR fold): the parity of bit b of pc plus the number of    *)
(* set window bits i (0 the newest) with i mod W = b.                      *)
FoldBit(pc, win, W, b) ==
    ((pc \div Pow2(b)) + Cardinality({i \in 1 .. Len(win) : win[i] /\ (i - 1) % W = b})) % 2

(* C32: compute_hash(pc, hist, L, skip, W) is in [0, 2^W), equals pc XOR   *)
(* fold masked to W bits, where fold XORs window bit i shifted left by     *)
(* i mod W, and is the same for any history and skip with the same window: *)
(* it depends neither on older bits nor on the skipped bits.               *)
C32_HashWidthLocality ==
    last.op = "compute_hash"
    => LET c == h_open
           win == Window(c.hist, c.skip_hist, c.hist_len)
       IN  /\ c.ret \in 0 .. Pow2(c.out_bits) - 1
           /\ \A b \in 0 .. c.out_bits - 1 :
                 (c.ret \div Pow2(b)) % 2 = FoldBit(c.pc, win, c.out_bits, b)
           /\ \A g \in Hists : \A s \in 0 .. Len(g) :
                 Window(g, s, c.hist_len) = win
                 => compute_hash(c.pc, g, c.hist_len, s, c.out_bits) = c.ret

(* C32 witness: a call where the PC is wider than the hash, two set bits   *)
(* fold onto one position, a skipped bit and an older bit are set.         *)
C32_Witness ==
    /\ last.op = "compute_hash"
    /\ h_open.pc >= Pow2(h_open.out_bits)
    /\ h_open.out_bits = 1 /\ h_open.hist_len = 2 /\ h_open.skip_hist = 1
    /\ h_open.hist = << TRUE, TRUE, TRUE, TRUE >>
    /\ h_open.ret = h_open.pc % 2

(* C33: for every history h and skip s <= |h|, compute_hash(pc, h, L, s,   *)
(* W) equals compute_hash(pc, h', L, 0, W), h' being h without its s most  *)
(* recent bits.                                                            *)
C33_HashRolledBack ==
    last.op = "compute_hash"
    => LET c == h_open
       IN  c.ret = compute_hash(c.pc, SubSeq(c.hist, 1, Len(c.hist) - c.skip_hist),
                                c.hist_len, 0, c.out_bits)

(* C33 witness: a call with a positive skip whose result differs from the  *)
(* hash of the whole history.                                              *)
C33_Witness ==
    /\ last.op = "compute_hash"
    /\ h_open.skip_hist > 0
    /\ Len(h_open.hist) - h_open.skip_hist >= h_open.hist_len
    /\ h_open.ret # compute_hash(h_open.pc, h_open.hist, h_open.hist_len, 0,
                                 h_open.out_bits)

(* Whether the call log ends with predict(A), predict(B),                  *)
(* history_update(A), history_update(B) followed by n more calls.          *)
Overlapped(n) ==
    LET m == Len(h_owner) - n
    IN  /\ m >= 4
        /\ h_owner[m - 3].op = "predict" /\ h_owner[m - 2].op = "predict"
        /\ h_owner[m - 1].op = "history_update" /\ h_owner[m].op = "history_update"
        /\ h_owner[m - 1].id = h_owner[m - 3].id
        /\ h_owner[m].id = h_owner[m - 2].id

(* C34: in the snapshot-based variant, after predict(A), predict(B),       *)
(* history_update(A), history_update(B) the GHR ends with A's bit followed *)
(* by B's bit, and a mispredicted update(A) that follows corrects A's bit  *)
(* and keeps B's bit.                                                      *)
C34_SnapshotGhrGrows ==
    LET n == Len(h_owner)
    IN  /\ Overlapped(0)
           => /\ Len(ghr) >= 2
              /\ ghr[Len(ghr) - 1] = h_owner[n - 1].bit
              /\ ghr[Len(ghr)] = h_owner[n].bit
        /\ (/\ Overlapped(1)
            /\ h_owner[n].op = "update" /\ h_owner[n].id = h_owner[n - 2].id
            /\ h_owner[n].wrong)
           => /\ Len(ghr) >= 2
              /\ ghr[Len(ghr) - 1] = h_owner[n].bit
              /\ ghr[Len(ghr)] = h_owner[n - 1].bit

(* C35: an entry that no allocation has written is never selected by       *)
(* predict. Before the first update nothing has been allocated, so every   *)
(* predict made until then has no provider and takes its alternate bit     *)
(* from the base table.                                                    *)
C35_ColdEntriesSilent ==
    (last.op = "predict" /\ h_done = EmptyMap)
    => /\ last.provider = -1
       /\ speculative_states[last.id].provider_table = -1
       /\ speculative_states[last.id].altpred = (base_table[last.pc % BaseSize] >= 0)


(* The legal harness with room for two history_update calls for one        *)
(* identity followed by CycleMod pushes for another before its update.     *)
MaxRepeatCalls == 7

NextRepeat ==
    \/ LegalSetup
    \/ LegalPredict(MaxRepeatCalls)
    \/ LegalHistoryUpdate(MaxRepeatCalls)
    \/ LegalUpdate(MaxRepeatCalls)

SpecRepeat == Init /\ [][NextRepeat]_vars

(* C36: when history_update was called more than once for an identity      *)
(* before its update and the bit of the last of those calls is still in    *)
(* the register, a mispredicted update overwrites exactly that most        *)
(* recently pushed bit with the resolved direction; the identity's earlier *)
(* bits and every other bit keep their speculative values.                 *)
C36_OnlyLastBitCorrected ==
    [][(/\ last'.op = "update"
        /\ last'.resolveDir # last'.predDir
        /\ last'.hu > 1
        /\ last'.since < Len(ghr))
       => /\ ~fault'
          /\ ghr' = [ghr EXCEPT ![LastOwn(last'.id)] = last'.resolveDir]
          /\ \A i \in OwnBits(last'.id) \ {LastOwn(last'.id)} :
                ghr'[i] = ghr[i]]_vars

(* The tagged entries that the step changes, usefulness halved by the      *)
(* periodic aging not counted.                                             *)
TouchedEntries ==
    {e \in Slots :
        LET old == tagged_tables[e[1]][e[2]]
            new == tagged_tables'[e[1]][e[2]]
        IN  \/ new.tag # old.tag
            \/ new.ctr # old.ctr
            \/ new.u # (IF AgingDue THEN old.u \div 2 ELSE old.u)}

TouchedCounters == {x \in DOMAIN base_table : base_table'[x] # base_table[x]}

(* C37: an update with a tagged provider changes no base counter; an       *)
(* update without provider changes no tag or counter of a tagged entry and *)
(* not the meta-counter; apart from aging, an update changes at most two   *)
(* tagged entries, one in the provider's table and one in the table        *)
(* allocated into, or at most one base counter.                            *)
C37_UpdateFootprint ==
    [][(last'.op = "update" /\ ~fault')
       => /\ last'.provider # -1 => TouchedCounters = {}
          /\ last'.provider = -1
                => /\ use_alt_on_na' = use_alt_on_na
                   /\ TouchedEntries = {}
                   /\ Cardinality(TouchedCounters) <= 1
          /\ Cardinality(TouchedEntries) <= 2
          /\ \A e \in TouchedEntries :
                \/ e = << last'.provider, last'.slot >>
                \/ e[1] = last'.alloc]_vars

(* An update with a tagged provider that stepped the provider's counter    *)
(* and allocated an entry in a longer table.                               *)
C37_Witness ==
    /\ last.op = "update" /\ ~fault
    /\ last.provider # -1
    /\ ~last.held
    /\ last.alloc # -1

----------------------------------------------------------------------------
(* The training harness on one PC, long enough for a weight to be stepped  *)
(* at its bound: rounds of predict, history_update with the predicted      *)
(* direction, update with the prediction and either outcome.               *)

MaxWeightRounds == 18

WeightPC == 1

WeightPredict ==
    /\ Started
    /\ h_open = EmptyMap
    /\ h_calls < MaxWeightRounds
    /\ predict(1, 0, WeightPC)
    /\ NotePredict(TrainId, WeightPC)
    /\ h_calls' = h_calls + 1
    /\ UNCHANGED << h_nextSeq, h_stray >>

NextWeight == LegalSetup \/ WeightPredict \/ TrainHistoryUpdate \/ TrainUpdate

SpecWeight == Init /\ [][NextWeight]_vars

WeightsBounded ==
    \A i \in Tables, j \in 0 .. MAX_HISTORY :
        weights[i][j] >= WEIGHT_MIN /\ weights[i][j] <= WEIGHT_MAX

(* C38: every RL weight lies within [WEIGHT_MIN, WEIGHT_MAX] = [-8, 7]     *)
(* before and after every step, and the weights change only in an update   *)
(* with a tagged provider, a prediction that differs from the outcome, a   *)
(* GHR of at least delta + MAX_HISTORY + 1 bits and an allocation into a   *)
(* table k, and then only in row k; predict and history_update leave them  *)
(* alone.                                                                  *)
C38_WeightsBoundedAndTrainedOnAllocation ==
    [][/\ WEIGHT_MIN = -8 /\ WEIGHT_MAX = 7
       /\ WeightsBounded /\ WeightsBounded'
       /\ weights' # weights
            => /\ last'.op = "update"
               /\ last'.provider # -1
               /\ last'.predDir # last'.resolveDir
               /\ Len(ghr) >= last'.delta + MAX_HISTORY + 1
               /\ last'.alloc \in Tables
               /\ \A i \in Tables \ {last'.alloc} : weights'[i] = weights[i]]_vars

(* An update that allocated and trained a row that now holds a weight at   *)
(* one of the bounds.                                                      *)
C38_Witness ==
    /\ last.op = "update" /\ ~fault
    /\ last.provider # -1 /\ last.alloc \in Tables
    /\ last.predDir # last.resolveDir
    /\ Len(ghr) >= last.delta + MAX_HISTORY + 1
    /\ \E j \in 0 .. MAX_HISTORY :
          weights[last.alloc][j] \in {WEIGHT_MIN, WEIGHT_MAX}
====
